---- MODULE Spec2Model ----
(***************************************************************************)
(* The engine cache and move-prediction pipeline of backend/maia_engine.py *)
(* as a state machine.  Request-handling threads run predict_move,         *)
(* _get_engine, cleanup_unused_engines and _shutdown_engines over the      *)
(* module-level dictionaries _engine_cache and _engine_stats.  The module  *)
(* takes no lock, so every statement that reads or writes a shared         *)
(* dictionary is a step of its own and steps of different threads          *)
(* interleave freely.  The HTTP handlers of backend/app.py (get_move, the  *)
(* health check) run on top of it and keep performance_metrics, which they *)
(* update under metrics_lock.                                              *)
(***************************************************************************)
EXTENDS Integers, Sequences, FiniteSets, TLC

\* ------------------------------------------------------------- bounds
NThreads == 2
MaxTime == 1
MaxCalls == 2
MaxSweeps == 1
MaxOverflow == 2

Threads == 1..NThreads

\* -------------------------------------------------- program constants
MinNodes == 1
MaxNodes == 10000
NumWeightsDirs == 4
MemoryWatermark == 400
MaxCachedEngines == 2
DefaultMaxAge == 300
ValidationLogCap == 100
ResponseTimesCap == 100
NetworkLogCap == 1000
DefaultLevel == 1500
DefaultNodes == 1
Dirs == 1..NumWeightsDirs

\* The skill levels the service ships weights for (1100..1900, step 100).
SupportedLevels == {1100 + 100 * i : i \in 0..8}

\* Levels requests are drawn from: two supported ones with weights, an
\* unsupported one, and a supported one (1900) whose weights are missing.
Levels == {1100, 1500, 1000, 1900}

\* ------------------------------------------------------ dictionaries
\* A Python dict is a function whose DOMAIN is its key set.
EmptyDict == << >>
Put(d, k, v) == [x \in (DOMAIN d) \cup {k} |-> IF x = k THEN v ELSE d[x]]
Del(d, k) == [x \in (DOMAIN d) \ {k} |-> d[x]]
Get(d, k, default) == IF k \in DOMAIN d THEN d[k] ELSE default

\* ---------------------------------------------------------- positions
\* chess.Board(fen) and the board queries predict_move makes, tabulated for
\* the positions requests are drawn from.
InvalidFen == "invalid_fen"
StartFen == "rnbqkbnr/pppppppp/8/8/8/8/PPPPPPPP/RNBQKBNR w KQkq - 0 1"
MateFen == "rnb1kbnr/pppp1ppp/8/4p3/6Pq/5P2/PPPPP2P/RNBQKBNR w KQkq - 1 3"
BareKingsFen == "8/8/8/8/8/8/K7/7k w - - 0 1"
PromoFen == "8/P7/8/8/8/8/8/k6K w - - 0 1"

Mv(f, t, p) == [from |-> f, to |-> t, promo |-> p]
NoMove == Mv("", "", "")

\* chess.Board(fen) raises ValueError unless the string is a FEN.
FenParses(fen) == fen \in {StartFen, MateFen, BareKingsFen, PromoFen}

\* board.legal_moves (a representative pair per position).
LegalMoves(fen) ==
    CASE fen = StartFen -> {Mv("e2", "e4", ""), Mv("g1", "f3", "")}
      [] fen = BareKingsFen -> {Mv("a2", "a3", ""), Mv("a2", "b3", "")}
      [] fen = PromoFen -> {Mv("a7", "a8", "q"), Mv("h1", "g1", "")}
      [] OTHER -> {}

\* board.is_insufficient_material(): bare kings cannot mate.
InsufficientMaterial(fen) == fen = BareKingsFen

\* board.is_game_over(): checkmate or stalemate (no legal move) or a draw by
\* insufficient material.
IsGameOver(fen) == LegalMoves(fen) = {} \/ InsufficientMaterial(fen)

\* Every move an engine process may print as its best move, legal or not.
AllMoves ==
    LegalMoves(StartFen) \cup LegalMoves(BareKingsFen) \cup LegalMoves(PromoFen)
        \cup {Mv("e2", "e5", "")}

\* chess.Move.uci(): from-square, to-square, promotion letter.
Uci(m) == m.from \o m.to \o m.promo

\* -------------------------------------------------------- node budgets
\* A Python value passed as `nodes`: its type and, for numbers, its value
\* (the integer part for a float).
IntV(n) == [type |-> "int", val |-> n]
FloatV(n) == [type |-> "float", val |-> n]
StrV == [type |-> "str", val |-> 0]
NoNodes == [type |-> "none", val |-> 0]

\* isinstance(nodes, int)
IsInstanceInt(n) == n.type = "int"

\* the check with its upper limit off by one
NodesOkOffByOne(n) == ~(~IsInstanceInt(n) \/ n.val < MinNodes \/ n.val >= MaxNodes)

\* not (not isinstance(nodes, int) or nodes < 1 or nodes > 10000)
NodesOk(n) == ~(~IsInstanceInt(n) \/ n.val < MinNodes \/ n.val > MaxNodes)

\* a JSON string holding a decimal numeral, such as "1500"
NumStrV(n) == [type |-> "numstr", val |-> n]

\* int(v): an int is itself, a float is truncated, a numeral string is
\* parsed; any other string raises ValueError and None raises TypeError.
PyInt(v) == [ok |-> v.type \in {"int", "float", "numstr"}, val |-> v.val]

\* data.get(key, default) for a key that may be absent
DataGet(v, default) == IF v.type = "none" THEN IntV(default) ELSE v

\* ------------------------------------------------------------- inputs
WideFens == {InvalidFen, StartFen, MateFen, BareKingsFen, PromoFen}
WideNodes == {IntV(0), IntV(1), IntV(MaxNodes), IntV(MaxNodes + 1), IntV(-1),
              FloatV(1), StrV}
NarrowFens == {StartFen}
NarrowNodes == {IntV(1)}
NarrowLevels == {1100, 1500}
MaxAges == {0, 1}
\* The lists handed to warm_engines: the default of the function, the one
\* app.py passes at start-up, a list that begins with a level without
\* weights, and the empty list.
WarmLists == {<<1100, 1500, 1900>>, <<1500>>, <<1900, 1100>>, << >>}

\* The bodies POSTed to /get_move: without a JSON content type, or JSON
\* with each of fen, level and nodes present or not.
ApiFens == {"", InvalidFen, StartFen, MateFen}
ApiLevels == {NoNodes, IntV(1100), IntV(1900), FloatV(1100), NumStrV(1100), StrV}
ApiNodes == {NoNodes, IntV(1), IntV(0), FloatV(1), StrV}

\* what get_memory_usage() may read with psutil present, in MB
MemoryReadings == {0, MemoryWatermark, MemoryWatermark + 1}

\* warm_engines(): levels = [1100, 1500, 1900]
WarmLevels == {1100, 1500, 1900}

VARIABLES
    now,            \* time.time(), in ticks
    disk,           \* the weight files that exist: <<level, directory index>>
    lc0Present,     \* whether the lc0 binary can be executed
    engine_cache,   \* _engine_cache: level -> engine id
    engines,        \* every engine object ever constructed, by id
    engine_stats,   \* _engine_stats
    pc,             \* each thread's position
    op,             \* the operation each thread is running
    loc,            \* each thread's local variables
    result,         \* what each thread's operation returned or raised
    calls,          \* predict_move and _get_engine calls started so far
    sweeps,         \* cleanup and shutdown calls started so far
    pre,            \* the shared state when the running operation started
                    \* (kept by the one-at-a-time specifications only)
    performance_metrics,    \* app.py: performance_metrics
    inserted        \* how many samples each rolling log was handed so far

vars == <<now, disk, lc0Present, engine_cache, engines, engine_stats,
          pc, op, loc, result, calls, sweeps, pre, performance_metrics,
          inserted>>

web == <<performance_metrics, inserted>>

env == <<now, disk, lc0Present>>
budget == <<calls, sweeps>>

Shared == [cache |-> engine_cache, stats |-> engine_stats,
           metrics |-> performance_metrics]

\* app.py answers with these HTTP statuses.
HttpOk == 200
HttpBadRequest == 400
HttpNotFound == 404
HttpServerError == 500

\* app.py: performance_metrics as the module creates it (lines 30-43)
EmptyMetrics == [total_requests |-> 0, total_response_time |-> 0,
                 recent_response_times |-> << >>,
                 engine_cache_hits |-> EmptyDict,
                 engine_cache_misses |-> EmptyDict,
                 error_count |-> 0, network_performance |-> << >>]

\* What get_engine_stats returns: the fields that count engines and moves.
NoSummary == [cached_engines |-> 0, engine_details |-> EmptyDict,
              total_moves_computed |-> 0]

\* The JSON body of a request, and whether its content type says JSON: an
\* empty fen stands for a missing or empty "fen", and level and nodes are
\* Python values as for the node budget, NoNodes for a key that is absent.
NoRequest == [is_json |-> FALSE, fen |-> "", level |-> NoNodes, nodes |-> NoNodes]

\* What a handler answers: the fields of its JSON body that matter here.
NoBody == [error |-> "", move |-> "", level |-> 0, nodes |-> 0,
           engine_cached |-> FALSE, engine_type |-> "",
           status |-> "", message |-> "", version |-> ""]

NoLoc == [fen |-> "", level |-> 0, nodes |-> NoNodes, hit |-> FALSE,
          engine |-> 0, weights |-> 0, t0 |-> 0, move |-> NoMove,
          max_age |-> 0, current_time |-> 0, toRemove |-> {},
          visited |-> {}, size |-> 0,
          start |-> 0, searches |-> 0, dur |-> 0, count |-> 0, total |-> 0,
          via |-> "", was_cached |-> FALSE, engine_type |-> "", memory |-> 0,
          handler |-> "", pending |-> FALSE, req |-> NoRequest,
          start_time |-> 0, response_time |-> 0, status |-> 0,
          body |-> NoBody, details |-> EmptyDict, summary |-> NoSummary,
          error |-> FALSE, snapshot |-> EmptyMetrics,
          levels |-> << >>, todo |-> << >>, created |-> {}, failed |-> {}]

NoResult == [kind |-> "none", move |-> "", engine |-> 0]
Err(k) == [kind |-> k, move |-> "", engine |-> 0]
OkMove(s, e) == [kind |-> "ok", move |-> s, engine |-> e]
OkEngine(e) == [kind |-> "ok", move |-> "", engine |-> e]
OkNone == [kind |-> "ok", move |-> "", engine |-> 0]

EmptyStats == [startup_times |-> EmptyDict, move_counts |-> EmptyDict,
               total_compute_time |-> EmptyDict, last_used |-> EmptyDict,
               memory_usage |-> EmptyDict, validation_metrics |-> << >>]

NoInserts == [validation |-> 0, response |-> 0, network |-> 0]

\* get_memory_usage(): the ImportError branch (psutil absent).
GetMemoryUsage == 0

\* The weight files on disk: level 1100 in two directories, level 1500 in
\* one, a stray file for level 1000, none for level 1900.
StockDisk == {<<1100, 1>>, <<1100, 3>>, <<1500, 2>>, <<1000, 1>>}

InitRest ==
    /\ now = 0
    /\ engine_cache = EmptyDict
    /\ engines = << >>
    /\ engine_stats = EmptyStats
    /\ pc = [t \in Threads |-> "idle"]
    /\ op = [t \in Threads |-> "none"]
    /\ loc = [t \in Threads |-> NoLoc]
    /\ result = [t \in Threads |-> NoResult]
    /\ calls = 0
    /\ sweeps = 0
    /\ performance_metrics = EmptyMetrics
    /\ inserted = NoInserts
    /\ pre = Shared

Init ==
    /\ disk = StockDisk
    /\ lc0Present \in BOOLEAN
    /\ InitRest

\* The weight files of a deployment that has all of the warm-up levels.
WarmDisk == StockDisk \cup {<<1900, 1>>}

\* The module imported with WARM_ENGINES_ON_STARTUP=true: warm_engines() has
\* gone through its levels in order, within one tick of the clock.
InitWarm ==
    /\ now = 0
    /\ disk = WarmDisk
    /\ lc0Present \in BOOLEAN
    /\ engines = LET k == IF lc0Present THEN "lc0" ELSE "random"
                 IN <<[level |-> 1100, kind |-> k, weights |-> 1, status |-> "running"],
                      [level |-> 1500, kind |-> k, weights |-> 2, status |-> "running"],
                      [level |-> 1900, kind |-> k, weights |-> 1, status |-> "running"]>>
    /\ engine_cache = (1100 :> 1) @@ (1500 :> 2) @@ (1900 :> 3)
    /\ engine_stats = [startup_times |-> [l \in WarmLevels |-> 0],
                       move_counts |-> [l \in WarmLevels |-> 0],
                       total_compute_time |-> [l \in WarmLevels |-> 0],
                       last_used |-> [l \in WarmLevels |-> 0],
                       memory_usage |-> [l \in WarmLevels |-> 0],
                       validation_metrics |-> << >>]
    /\ pc = [t \in Threads |-> "idle"]
    /\ op = [t \in Threads |-> "none"]
    /\ loc = [t \in Threads |-> NoLoc]
    /\ result = [t \in Threads |-> NoResult]
    /\ calls = 0
    /\ sweeps = 0
    /\ performance_metrics = EmptyMetrics
    /\ inserted = NoInserts
    /\ pre = Shared

\* ------------------------------------------------------------ helpers
Goto(t, p) == pc' = [pc EXCEPT ![t] = p]
SetLoc(t, l) == loc' = [loc EXCEPT ![t] = l]

\* The operation of thread t ends: it returned or raised r.
Finish(t, r) ==
    /\ pc' = [pc EXCEPT ![t] = "done"]
    /\ result' = [result EXCEPT ![t] = r]

\* The caller takes the result and the thread is free again.
Return(t) ==
    /\ pc[t] = "done"
    /\ ~loc[t].pending
    /\ pc' = [pc EXCEPT ![t] = "idle"]
    /\ op' = [op EXCEPT ![t] = "none"]
    /\ loc' = [loc EXCEPT ![t] = NoLoc]
    /\ result' = [result EXCEPT ![t] = NoResult]
    /\ UNCHANGED <<env, engine_cache, engines, engine_stats, budget>>

Tick ==
    /\ now < MaxTime
    /\ now' = now + 1
    /\ UNCHANGED <<disk, lc0Present, engine_cache, engines, engine_stats,
                   pc, op, loc, result, budget>>

\* The lc0 binary is installed or removed, or LC0_PATH is pointed elsewhere,
\* while the service runs.
Lc0Changes ==
    /\ lc0Present' = ~lc0Present
    /\ UNCHANGED <<now, disk, engine_cache, engines, engine_stats,
                   pc, op, loc, result, budget>>

\* ------------------------------------------------------- rolling logs
\* the slice, were it to keep the oldest entries: s[:n]
FirstN(s, n) == IF Len(s) > n THEN SubSeq(s, 1, n) ELSE s

\* s[-n:]
LastN(s, n) == IF Len(s) > n THEN SubSeq(s, Len(s) - n + 1, Len(s)) ELSE s

\* _engine_stats['validation_metrics'].append(metrics), then the slice to
\* the last 100 once the list is longer than that
ValidationAppend(log, m) ==
    LET a == Append(log, m)
    IN IF Len(a) > ValidationLogCap THEN LastN(a, ValidationLogCap) ELSE a

\* deque(maxlen=100).append(x): a full deque drops its leftmost item
DequeAppend(d, x) ==
    IF Len(d) = ResponseTimesCap THEN Append(Tail(d), x) ELSE Append(d, x)

\* performance_metrics['network_performance'].append(network_metric), then
\* the slice to the last 1000 once the list is longer than that
NetworkAppend(log, m) ==
    LET a == Append(log, m)
    IN IF Len(a) > NetworkLogCap THEN LastN(a, NetworkLogCap) ELSE a

\* defaultdict(int): d[k] += 1
Incr(d, k) == Put(d, k, Get(d, k, 0) + 1)

\* update_metrics(response_time, level, cache_hit, error), under metrics_lock
UpdateMetrics(pm, response_time, level, cache_hit, error) ==
    [pm EXCEPT !.total_requests = @ + 1,
               !.total_response_time = @ + response_time,
               !.recent_response_times = DequeAppend(@, response_time),
               !.engine_cache_hits = IF cache_hit THEN Incr(@, level) ELSE @,
               !.engine_cache_misses = IF cache_hit THEN @ ELSE Incr(@, level),
               !.error_count = IF error THEN @ + 1 ELSE @]

\* log_network_performance(response_time, endpoint, status_code), under
\* metrics_lock
LogNetworkPerformance(pm, response_time, endpoint, status_code) ==
    [pm EXCEPT !.network_performance =
        NetworkAppend(@, [endpoint |-> endpoint,
                          response_time |-> response_time,
                          status_code |-> status_code])]

\* the metrics dict validate_engine_performance builds after a prediction
\* that returned
ValidationMetrics(level, move, duration, cached) ==
    [move_calculation_time |-> duration, engine_cached |-> cached,
     move |-> move, level |-> level, success |-> TRUE]

\* One log is filled per behaviour (the three logs share nothing), each
\* sample carrying its number in the order of insertion as its duration.
\* validate_engine_performance, lines 99-103, on one more sample:
StoreValidationMetrics ==
    /\ inserted.response = 0 /\ inserted.network = 0
    /\ inserted.validation < ValidationLogCap + MaxOverflow
    /\ LET n == inserted.validation + 1 IN
        /\ engine_stats' = [engine_stats EXCEPT !.validation_metrics =
                ValidationAppend(@, ValidationMetrics(DefaultLevel, "e2e4", n, TRUE))]
        /\ inserted' = [inserted EXCEPT !.validation = n]
    /\ UNCHANGED <<env, engine_cache, engines, pc, op, loc, result, budget,
                   pre, performance_metrics>>

\* update_metrics for one more answered request:
RecordResponseTime ==
    /\ inserted.validation = 0 /\ inserted.network = 0
    /\ inserted.response < ResponseTimesCap + MaxOverflow
    /\ LET n == inserted.response + 1 IN
        /\ performance_metrics' =
                UpdateMetrics(performance_metrics, n, DefaultLevel, TRUE, FALSE)
        /\ inserted' = [inserted EXCEPT !.response = n]
    /\ UNCHANGED <<env, engine_cache, engines, engine_stats, pc, op, loc,
                   result, budget, pre>>

\* log_network_performance for one more answered request:
RecordNetworkMetric ==
    /\ inserted.validation = 0 /\ inserted.response = 0
    /\ inserted.network < NetworkLogCap + MaxOverflow
    /\ LET n == inserted.network + 1 IN
        /\ performance_metrics' =
                LogNetworkPerformance(performance_metrics, n, "/get_move", 200)
        /\ inserted' = [inserted EXCEPT !.network = n]
    /\ UNCHANGED <<env, engine_cache, engines, engine_stats, pc, op, loc,
                   result, budget, pre>>

\* ------------------------------------------------------- predict_move
\* the checks with the node budget looked at before the game-over test
ValidateWrongOrder(fen, nodes) ==
    IF ~FenParses(fen) THEN "InvalidFEN"
    ELSE IF ~NodesOk(nodes) THEN "InvalidNodes"
    ELSE IF IsGameOver(fen) THEN "NoLegalMoves"
    ELSE "ok"

\* The checks predict_move makes before it touches the cache, in its order.
Validate(fen, nodes) ==
    IF ~FenParses(fen) THEN "InvalidFEN"
    ELSE IF IsGameOver(fen) THEN "NoLegalMoves"
    ELSE IF ~NodesOk(nodes) THEN "InvalidNodes"
    ELSE "ok"

CallPredictMove(t, F, N, L) ==
    /\ pc[t] = "idle"
    /\ calls < MaxCalls
    /\ calls' = calls + 1
    /\ \E fen \in F, level \in L, nodes \in N :
        LET v == Validate(fen, nodes) IN
        /\ op' = [op EXCEPT ![t] = "predict_move"]
        /\ SetLoc(t, [NoLoc EXCEPT !.fen = fen, !.level = level, !.nodes = nodes,
                                   !.start = now])
        /\ IF v = "ok"
           THEN Goto(t, "ge_check") /\ UNCHANGED result
           ELSE Finish(t, Err(v))
    /\ UNCHANGED <<env, sweeps, engine_cache, engines, engine_stats>>

\* -------------------------------------------------------- _get_engine
\* A direct caller of _get_engine (warm_engines does this).
CallGetEngine(t, L) ==
    /\ pc[t] = "idle"
    /\ calls < MaxCalls
    /\ calls' = calls + 1
    /\ \E level \in L :
        /\ op' = [op EXCEPT ![t] = "get_engine"]
        /\ SetLoc(t, [NoLoc EXCEPT !.level = level, !.start = now])
    /\ Goto(t, "ge_check")
    /\ UNCHANGED <<env, sweeps, engine_cache, engines, engine_stats, result>>

\* _get_engine returns engine e to its caller: predict_move goes on to the
\* search (noting move_computation_start), a direct caller is done.
GotEngine(t, l, e) ==
    IF op[t] = "predict_move"
    THEN /\ Goto(t, "pm_play")
         /\ SetLoc(t, [l EXCEPT !.engine = e, !.t0 = now])
         /\ UNCHANGED result
    ELSE /\ Finish(t, OkEngine(e))
         /\ SetLoc(t, [l EXCEPT !.engine = e])

\* the lookup, were a search to hold a lock that _get_engine takes too
GeCheckBehindSearch(t) ==
    /\ pc[t] = "ge_check"
    /\ \A u \in Threads \ {t} : pc[u] # "pm_play"
    /\ IF loc[t].level \in DOMAIN engine_cache
       THEN /\ Goto(t, "ge_touch")
            /\ SetLoc(t, [loc[t] EXCEPT !.hit = TRUE])
       ELSE /\ Goto(t, "ge_weights")
            /\ SetLoc(t, [loc[t] EXCEPT !.hit = FALSE, !.t0 = now])
    /\ UNCHANGED <<env, engine_cache, engines, engine_stats, op, result, budget>>

\* if level in _engine_cache
GeCheck(t) ==
    /\ pc[t] = "ge_check"
    /\ IF loc[t].level \in DOMAIN engine_cache
       THEN /\ Goto(t, "ge_touch")
            /\ SetLoc(t, [loc[t] EXCEPT !.hit = TRUE])
       ELSE /\ Goto(t, "ge_weights")
            /\ SetLoc(t, [loc[t] EXCEPT !.hit = FALSE, !.t0 = now])
    /\ UNCHANGED <<env, engine_cache, engines, engine_stats, op, result, budget>>

\* the hit, were last_used left as it is
GeTouchNoRefresh(t) ==
    /\ pc[t] = "ge_touch"
    /\ Goto(t, "ge_ret")
    /\ UNCHANGED <<env, engine_cache, engines, engine_stats, op, loc, result, budget>>

\* _engine_stats['last_used'][level] = time.time()
GeTouch(t) ==
    /\ pc[t] = "ge_touch"
    /\ engine_stats' = [engine_stats EXCEPT
                          !.last_used = Put(@, loc[t].level, now)]
    /\ Goto(t, "ge_ret")
    /\ UNCHANGED <<env, engine_cache, engines, op, loc, result, budget>>

\* return _engine_cache[level]  (KeyError when the entry is gone by now)
GeReturnHit(t) ==
    /\ pc[t] = "ge_ret"
    /\ IF loc[t].level \in DOMAIN engine_cache
       THEN GotEngine(t, loc[t], engine_cache[loc[t].level])
       ELSE Finish(t, Err("KeyError")) /\ UNCHANGED loc
    /\ UNCHANGED <<env, engine_cache, engines, engine_stats, op, budget>>

\* the probe, were the last match to win
GetWeightsPathLast(level) ==
    LET found == {d \in Dirs : <<level, d>> \in disk}
    IN IF found = {} THEN 0 ELSE CHOOSE d \in found : \A x \in found : x <= d

\* _get_weights_path: the first candidate directory holding the file, 0 for
\* FileNotFoundError.
GetWeightsPath(level) ==
    LET found == {d \in Dirs : <<level, d>> \in disk}
    IN IF found = {} THEN 0 ELSE CHOOSE d \in found : \A x \in found : d <= x

\* the lookup, were the start-up statistics written before it fails
GeWeightsRecording(t) ==
    /\ pc[t] = "ge_weights"
    /\ LET w == GetWeightsPath(loc[t].level) IN
        IF w = 0
        THEN /\ Finish(t, Err("ModelNotFound"))
             /\ engine_stats' = [engine_stats EXCEPT
                    !.startup_times = Put(@, loc[t].level, now - loc[t].t0)]
             /\ UNCHANGED loc
        ELSE /\ Goto(t, "ge_launch")
             /\ SetLoc(t, [loc[t] EXCEPT !.weights = w])
             /\ UNCHANGED <<result, engine_stats>>
    /\ UNCHANGED <<env, engine_cache, engines, op, budget>>

\* weights_path = _get_weights_path(level)
GeWeights(t) ==
    /\ pc[t] = "ge_weights"
    /\ LET w == GetWeightsPath(loc[t].level) IN
        IF w = 0
        THEN Finish(t, Err("ModelNotFound")) /\ UNCHANGED loc
        ELSE /\ Goto(t, "ge_launch")
             /\ SetLoc(t, [loc[t] EXCEPT !.weights = w])
             /\ UNCHANGED result
    /\ UNCHANGED <<env, engine_cache, engines, engine_stats, op, budget>>

NewEngine(level, kind, w) ==
    [level |-> level, kind |-> kind, weights |-> w, status |-> "running"]

\* the launch, were the missing binary not caught
GeLaunchNoFallback(t) ==
    /\ pc[t] = "ge_launch"
    /\ Finish(t, Err("EngineInitError"))
    /\ UNCHANGED <<env, engine_cache, engines, engine_stats, op, loc, budget>>

\* popen_uci: without the binary FileNotFoundError is caught and a
\* _RandomEngine takes the place; with it the process starts, or the launch
\* fails in another way and the exception leaves _get_engine.
GeLaunch(t) ==
    /\ pc[t] = "ge_launch"
    /\ IF ~lc0Present
       THEN /\ engines' = Append(engines, NewEngine(loc[t].level, "random", loc[t].weights))
            /\ Goto(t, "ge_record")
            /\ SetLoc(t, [loc[t] EXCEPT !.engine = Len(engines) + 1])
            /\ UNCHANGED result
       ELSE \E started \in BOOLEAN :
            IF started
            THEN /\ engines' = Append(engines, NewEngine(loc[t].level, "lc0", loc[t].weights))
                 /\ Goto(t, "ge_record")
                 /\ SetLoc(t, [loc[t] EXCEPT !.engine = Len(engines) + 1])
                 /\ UNCHANGED result
            ELSE /\ Finish(t, Err("EngineInitError"))
                 /\ UNCHANGED <<engines, loc>>
    /\ UNCHANGED <<env, engine_cache, engine_stats, op, budget>>

\* the statistics of the new engine, were last_used left out
GeRecordWithoutLastUsed(t) ==
    /\ pc[t] = "ge_record"
    /\ LET l == loc[t].level IN
        engine_stats' = [engine_stats EXCEPT
            !.startup_times = Put(@, l, now - loc[t].t0),
            !.move_counts = Put(@, l, 0),
            !.total_compute_time = Put(@, l, 0),
            !.memory_usage = Put(@, l, GetMemoryUsage - GetMemoryUsage)]
    /\ Goto(t, "ge_store")
    /\ UNCHANGED <<env, engine_cache, engines, op, loc, result, budget>>

\* startup_time, memory_delta and the five statistics of the new engine
GeRecord(t) ==
    /\ pc[t] = "ge_record"
    /\ LET l == loc[t].level IN
        engine_stats' = [engine_stats EXCEPT
            !.startup_times = Put(@, l, now - loc[t].t0),
            !.move_counts = Put(@, l, 0),
            !.total_compute_time = Put(@, l, 0),
            !.last_used = Put(@, l, now),
            !.memory_usage = Put(@, l, GetMemoryUsage - GetMemoryUsage)]
    /\ Goto(t, "ge_store")
    /\ UNCHANGED <<env, engine_cache, engines, op, loc, result, budget>>

\* _engine_cache[level] = engine; return engine
GeStore(t) ==
    /\ pc[t] = "ge_store"
    /\ engine_cache' = Put(engine_cache, loc[t].level, loc[t].engine)
    /\ GotEngine(t, loc[t], loc[t].engine)
    /\ UNCHANGED <<env, engines, engine_stats, op, budget>>

\* -------------------------------------------------------- warm_engines
\* warm_engines(levels) is called: the loop starts with the first level,
\* an empty list ends the call at once.
CallWarmEngines(t, LL) ==
    /\ pc[t] = "idle"
    /\ calls < MaxCalls
    /\ calls' = calls + 1
    /\ op' = [op EXCEPT ![t] = "get_engine"]
    /\ \E levels \in LL :
        IF levels = << >>
        THEN /\ SetLoc(t, [NoLoc EXCEPT !.handler = "warm_engines"])
             /\ Finish(t, OkNone)
        ELSE /\ SetLoc(t, [NoLoc EXCEPT !.handler = "warm_engines",
                                        !.pending = TRUE, !.levels = levels,
                                        !.level = Head(levels),
                                        !.todo = Tail(levels), !.start = now])
             /\ Goto(t, "ge_check")
             /\ UNCHANGED result
    /\ UNCHANGED <<env, sweeps, engine_cache, engines, engine_stats>>

\* the loop, were the exception of _get_engine not caught
WeNextAborting(t) ==
    /\ pc[t] = "done"
    /\ loc[t].handler = "warm_engines"
    /\ loc[t].pending
    /\ LET ok == result[t].kind = "ok"
           l == [loc[t] EXCEPT
                    !.created = IF ok THEN @ \cup {loc[t].level} ELSE @,
                    !.failed = IF ok THEN @ ELSE @ \cup {loc[t].level}]
       IN IF ~ok
          THEN /\ SetLoc(t, [l EXCEPT !.pending = FALSE])
               /\ UNCHANGED <<pc, result>>
          ELSE IF loc[t].todo = << >>
          THEN /\ SetLoc(t, [l EXCEPT !.pending = FALSE])
               /\ Finish(t, OkNone)
          ELSE /\ SetLoc(t, [l EXCEPT !.level = Head(loc[t].todo),
                                      !.todo = Tail(loc[t].todo), !.start = now])
               /\ Goto(t, "ge_check")
               /\ result' = [result EXCEPT ![t] = NoResult]
    /\ UNCHANGED <<env, engine_cache, engines, engine_stats, op, budget>>

\* _get_engine(level) came back or raised inside the try: either way the
\* outcome is logged and the loop goes on to the next level; after the last
\* one warm_engines returns None.
WeNext(t) ==
    /\ pc[t] = "done"
    /\ loc[t].handler = "warm_engines"
    /\ loc[t].pending
    /\ LET ok == result[t].kind = "ok"
           l == [loc[t] EXCEPT
                    !.created = IF ok THEN @ \cup {loc[t].level} ELSE @,
                    !.failed = IF ok THEN @ ELSE @ \cup {loc[t].level}]
       IN IF loc[t].todo = << >>
          THEN /\ SetLoc(t, [l EXCEPT !.pending = FALSE])
               /\ Finish(t, OkNone)
          ELSE /\ SetLoc(t, [l EXCEPT !.level = Head(loc[t].todo),
                                      !.todo = Tail(loc[t].todo), !.start = now])
               /\ Goto(t, "ge_check")
               /\ result' = [result EXCEPT ![t] = NoResult]
    /\ UNCHANGED <<env, engine_cache, engines, engine_stats, op, budget>>

\* ------------------------------------------------- engine.play / quit
MoveOutcome(m) == [kind |-> "move", move |-> m]
ErrorOutcome == [kind |-> "error", move |-> NoMove]
NoneOutcome == [kind |-> "none", move |-> NoMove]

\* a random engine that picks among all moves, legal or not
RandomEnginePlayAnyMove(fen) == AllMoves

\* _RandomEngine.play: random.choice(list(board.legal_moves))
RandomEnginePlay(fen) == LegalMoves(fen)

\* SimpleEngine.play on an lc0 process: the process answers with a best move
\* that python-chess accepts only when it is legal on the board (EngineError
\* otherwise), with "(none)" (result.move is None), or fails.
Lc0Play(fen) ==
    {MoveOutcome(m) : m \in AllMoves \cap LegalMoves(fen)}
        \cup {ErrorOutcome, NoneOutcome}

\* What engine.play(board, limit) can give for engine record e.  A process
\* that was quit raises EngineTerminatedError, an EngineError; quit() of a
\* _RandomEngine does nothing, so it keeps answering.
PlayOutcomes(e, fen) ==
    IF e.kind = "random" THEN {MoveOutcome(m) : m \in RandomEnginePlay(fen)}
    ELSE IF e.status = "quit" THEN {ErrorOutcome}
    ELSE Lc0Play(fen)

\* engine.quit(): TRUE when it returns, FALSE when it raises.
QuitOutcomes(e) == IF e.kind = "random" THEN {TRUE} ELSE {TRUE, FALSE}

Quit(id, ok) ==
    engines' = [engines EXCEPT ![id].status = IF ok THEN "quit" ELSE "quit_failed"]

\* the search, were a failed search tried once more
PmPlayRetrying(t) ==
    /\ pc[t] = "pm_play"
    /\ \E o \in PlayOutcomes(engines[loc[t].engine], loc[t].fen) :
        LET l == [loc[t] EXCEPT !.searches = @ + 1] IN
        IF o.kind = "move"
        THEN /\ Goto(t, "pm_stats")
             /\ SetLoc(t, [l EXCEPT !.move = o.move])
             /\ UNCHANGED result
        ELSE IF loc[t].searches = 0
        THEN SetLoc(t, l) /\ UNCHANGED <<pc, result>>
        ELSE /\ Finish(t, Err(IF o.kind = "error" THEN "EngineError" ELSE "NoMove"))
             /\ SetLoc(t, l)
    /\ UNCHANGED <<env, engine_cache, engines, engine_stats, op, budget>>

\* result = engine.play(board, Limit(nodes=nodes)) and the two failure exits
PmPlay(t) ==
    /\ pc[t] = "pm_play"
    /\ \E o \in PlayOutcomes(engines[loc[t].engine], loc[t].fen) :
        LET l == [loc[t] EXCEPT !.searches = @ + 1] IN
        IF o.kind = "move"
        THEN /\ Goto(t, "pm_stats")
             /\ SetLoc(t, [l EXCEPT !.move = o.move])
             /\ UNCHANGED result
        ELSE /\ Finish(t, Err(IF o.kind = "error" THEN "EngineError" ELSE "NoMove"))
             /\ SetLoc(t, l)
    /\ UNCHANGED <<env, engine_cache, engines, engine_stats, op, budget>>

\* move_computation_time, the two counters set up for a level that has none,
\* and the read of move_counts[level] that `+= 1` starts with
PmStats(t) ==
    /\ pc[t] = "pm_stats"
    /\ LET l == loc[t].level
           fresh == l \notin DOMAIN engine_stats.move_counts
           mc == IF fresh THEN Put(engine_stats.move_counts, l, 0)
                 ELSE engine_stats.move_counts
           tc == IF fresh THEN Put(engine_stats.total_compute_time, l, 0)
                 ELSE engine_stats.total_compute_time
       IN /\ engine_stats' = [engine_stats EXCEPT
                !.move_counts = mc, !.total_compute_time = tc]
          /\ SetLoc(t, [loc[t] EXCEPT !.dur = now - loc[t].t0, !.count = mc[l]])
    /\ Goto(t, "pm_count")
    /\ UNCHANGED <<env, engine_cache, engines, op, result, budget>>

\* the write that ends move_counts[level] += 1, and the read of
\* total_compute_time[level] for the next `+=`
PmCount(t) ==
    /\ pc[t] = "pm_count"
    /\ LET l == loc[t].level IN
        /\ engine_stats' = [engine_stats EXCEPT
                !.move_counts = Put(@, l, loc[t].count + 1)]
        /\ SetLoc(t, [loc[t] EXCEPT
                !.total = Get(engine_stats.total_compute_time, l, 0)])
    /\ Goto(t, "pm_time")
    /\ UNCHANGED <<env, engine_cache, engines, op, result, budget>>

\* the write that ends total_compute_time[level] += move_computation_time,
\* last_used, and return result.move.uci()
PmTime(t) ==
    /\ pc[t] = "pm_time"
    /\ LET l == loc[t].level IN
        engine_stats' = [engine_stats EXCEPT
            !.total_compute_time = Put(@, l, loc[t].total + loc[t].dur),
            !.last_used = Put(@, l, now)]
    /\ Finish(t, OkMove(Uci(loc[t].move), loc[t].engine))
    /\ UNCHANGED <<env, engine_cache, engines, op, loc, budget>>

\* ------------------------------------------------------- the wrappers
\* predict_move_with_metrics up to its call of predict_move:
\* engine_was_cached = level in _engine_cache
CallPredictMoveWithMetrics(t, F, N, L) ==
    /\ pc[t] = "idle"
    /\ calls < MaxCalls
    /\ calls' = calls + 1
    /\ \E fen \in F, level \in L, nodes \in N :
        /\ op' = [op EXCEPT ![t] = "predict_move"]
        /\ SetLoc(t, [NoLoc EXCEPT !.fen = fen, !.level = level, !.nodes = nodes,
                                   !.via = "metrics",
                                   !.was_cached = level \in DOMAIN engine_cache])
    /\ Goto(t, "pm_enter")
    /\ UNCHANGED <<env, sweeps, engine_cache, engines, engine_stats, result>>

\* _check_lc0_availability(): `lc0 --help` ran and returned 0
CheckLc0Availability == lc0Present

\* predict_move_with_validation_logging up to its call of predict_move:
\* engine_type = "LC0" if _check_lc0_availability() else "RANDOM_FALLBACK"
CallPredictMoveWithValidationLogging(t, F, N, L) ==
    /\ pc[t] = "idle"
    /\ calls < MaxCalls
    /\ calls' = calls + 1
    /\ \E fen \in F, level \in L, nodes \in N :
        /\ op' = [op EXCEPT ![t] = "predict_move"]
        /\ SetLoc(t, [NoLoc EXCEPT !.fen = fen, !.level = level, !.nodes = nodes,
                                   !.via = "logging",
                                   !.engine_type = IF CheckLc0Availability
                                                   THEN "LC0"
                                                   ELSE "RANDOM_FALLBACK"])
    /\ Goto(t, "pm_enter")
    /\ UNCHANGED <<env, sweeps, engine_cache, engines, engine_stats, result>>

\* validate_engine_performance up to its call of predict_move, on the start
\* position with one node
CallValidateEnginePerformance(t, L) ==
    /\ pc[t] = "idle"
    /\ calls < MaxCalls
    /\ calls' = calls + 1
    /\ \E level \in L :
        /\ op' = [op EXCEPT ![t] = "predict_move"]
        /\ SetLoc(t, [NoLoc EXCEPT !.fen = StartFen, !.level = level,
                                   !.nodes = IntV(1), !.via = "validate",
                                   !.handler = "validate", !.pending = TRUE,
                                   !.start_time = now])
    /\ Goto(t, "pm_enter")
    /\ UNCHANGED <<env, sweeps, engine_cache, engines, engine_stats, result>>

\* validate_engine_performance after predict_move: the metrics of a move
\* that came back are stored (lines 85-105); the except branch (lines
\* 108-124) builds error_metrics, logs them and returns them.  result keeps
\* the outcome of the prediction, which the returned dict reports as
\* 'success'.
VpRecord(t) ==
    /\ pc[t] = "done"
    /\ loc[t].handler = "validate"
    /\ loc[t].pending
    /\ IF result[t].kind = "ok"
       THEN engine_stats' = [engine_stats EXCEPT !.validation_metrics =
                ValidationAppend(@, ValidationMetrics(loc[t].level, result[t].move,
                                        now - loc[t].start_time,
                                        loc[t].level \in DOMAIN engine_cache))]
       ELSE UNCHANGED engine_stats
    /\ SetLoc(t, [loc[t] EXCEPT !.pending = FALSE])
    /\ UNCHANGED <<env, engine_cache, engines, pc, op, result, budget>>

\* predict_move entered from a wrapper: computation_start and the checks
PmEnter(t) ==
    /\ pc[t] = "pm_enter"
    /\ LET v == Validate(loc[t].fen, loc[t].nodes) IN
        IF v = "ok"
        THEN /\ Goto(t, "ge_check")
             /\ SetLoc(t, [loc[t] EXCEPT !.start = now])
             /\ UNCHANGED result
        ELSE Finish(t, Err(v)) /\ UNCHANGED loc
    /\ UNCHANGED <<env, engine_cache, engines, engine_stats, op, budget>>

\* ------------------------------------------------ app.py: metrics_lock
\* metrics_lock, were it to protect nothing
MetricsLockNeverHeld == FALSE

\* metrics_lock is held by the thread that is inside the `with` block of
\* update_metrics
MetricsLockHeld == \E u \in Threads : pc[u] \in {"um_total", "um_cache", "um_error"}

\* update_metrics(response_time, level, cache_hit, error) is called
CallUpdateMetrics(t, RT, L) ==
    /\ pc[t] = "idle"
    /\ calls < MaxCalls
    /\ calls' = calls + 1
    /\ \E rt \in RT, level \in L, cache_hit \in BOOLEAN, error \in BOOLEAN :
        SetLoc(t, [NoLoc EXCEPT !.response_time = rt, !.level = level,
                                !.hit = cache_hit, !.error = error])
    /\ op' = [op EXCEPT ![t] = "update_metrics"]
    /\ Goto(t, "um_lock")
    /\ UNCHANGED <<env, sweeps, engine_cache, engines, engine_stats, result,
                   performance_metrics>>

\* with metrics_lock: the thread waits until the lock is free
UmAcquire(t) ==
    /\ pc[t] = "um_lock"
    /\ ~MetricsLockHeld
    /\ Goto(t, "um_total")
    /\ UNCHANGED <<env, engine_cache, engines, engine_stats, op, loc, result,
                   budget, performance_metrics>>

\* total_requests += 1; total_response_time += response_time;
\* recent_response_times.append(response_time)
UmTotals(t) ==
    /\ pc[t] = "um_total"
    /\ performance_metrics' =
            [performance_metrics EXCEPT
                !.total_requests = @ + 1,
                !.total_response_time = @ + loc[t].response_time,
                !.recent_response_times = DequeAppend(@, loc[t].response_time)]
    /\ Goto(t, "um_cache")
    /\ UNCHANGED <<env, engine_cache, engines, engine_stats, op, loc, result,
                   budget>>

\* engine_cache_hits[level] += 1 or engine_cache_misses[level] += 1
UmCache(t) ==
    /\ pc[t] = "um_cache"
    /\ performance_metrics' =
            [performance_metrics EXCEPT
                !.engine_cache_hits =
                    IF loc[t].hit THEN Incr(@, loc[t].level) ELSE @,
                !.engine_cache_misses =
                    IF loc[t].hit THEN @ ELSE Incr(@, loc[t].level)]
    /\ Goto(t, "um_error")
    /\ UNCHANGED <<env, engine_cache, engines, engine_stats, op, loc, result,
                   budget>>

\* if error: error_count += 1; the lock is released
UmError(t) ==
    /\ pc[t] = "um_error"
    /\ performance_metrics' =
            [performance_metrics EXCEPT
                !.error_count = IF loc[t].error THEN @ + 1 ELSE @]
    /\ Finish(t, OkNone)
    /\ UNCHANGED <<env, engine_cache, engines, engine_stats, op, loc, budget>>

\* get_performance_summary(): the counters are read under metrics_lock
GetPerformanceSummary(t) ==
    /\ pc[t] = "idle"
    /\ ~MetricsLockHeld
    /\ op' = [op EXCEPT ![t] = "get_performance_summary"]
    /\ SetLoc(t, [NoLoc EXCEPT !.snapshot = performance_metrics])
    /\ Finish(t, OkNone)
    /\ UNCHANGED <<env, budget, engine_cache, engines, engine_stats,
                   performance_metrics>>

\* ---------------------------------------------------- app.py: get_move
Requests ==
    {NoRequest} \cup [is_json : {TRUE}, fen : ApiFens, level : ApiLevels,
                      nodes : ApiNodes]

\* Which except clause of get_move catches what predict_move raised:
\* FileNotFoundError, ValueError, or anything else.
StatusOf(kind) ==
    IF kind = "ModelNotFound" THEN HttpNotFound
    ELSE IF kind \in {"InvalidFEN", "NoLegalMoves", "InvalidNodes"} THEN HttpBadRequest
    ELSE HttpServerError

\* the 'error' text of a failed answer, up to the exception's own text
ErrorText(kind) ==
    IF kind = "ModelNotFound" THEN "Model not found"
    ELSE IF kind = "InvalidFEN" THEN "Invalid FEN string"
    ELSE IF kind = "NoLegalMoves" THEN "No legal moves available in the given position"
    ELSE IF kind = "InvalidNodes" THEN "Nodes must be an integer between 1 and 10000"
    ELSE "Internal server error"

\* the finally clause: `if error_occurred and request_level:` update_metrics
\* once more (request_level None is written 0: both are falsy)
Finally(pm, error_occurred, request_level, response_time) ==
    IF error_occurred /\ request_level # 0
    THEN UpdateMetrics(pm, response_time, request_level, FALSE, TRUE)
    ELSE pm

\* get_move from its first line to the call of predict_move inside
\* predict_move_with_metrics (lines 315-372, 448): the request is parsed, and
\* either answered with 400 right away or handed on.
CallGetMove(t, R) ==
    /\ pc[t] = "idle"
    /\ calls < MaxCalls
    /\ calls' = calls + 1
    /\ \E req \in R :
        LET level == PyInt(DataGet(req.level, DefaultLevel))
            nodes == PyInt(DataGet(req.nodes, DefaultNodes))
            error == IF ~req.is_json THEN "Request must contain JSON data"
                     ELSE IF req = [NoRequest EXCEPT !.is_json = TRUE]
                          THEN "No JSON data provided"
                     ELSE IF req.fen = "" THEN "FEN string is required"
                     ELSE IF ~level.ok THEN "Level must be an integer"
                     ELSE IF ~nodes.ok THEN "Nodes must be an integer"
                     ELSE ""
            request_level == IF error = "Nodes must be an integer"
                             THEN level.val ELSE 0
            l == [NoLoc EXCEPT !.handler = "get_move", !.req = req,
                               !.start_time = now]
        IN IF error # ""
           THEN /\ performance_metrics' =
                    Finally(LogNetworkPerformance(performance_metrics, 0,
                                                  "/get_move", HttpBadRequest),
                            TRUE, request_level, 0)
                /\ op' = [op EXCEPT ![t] = "get_move"]
                /\ Goto(t, "done")
                /\ SetLoc(t, [l EXCEPT !.status = HttpBadRequest,
                                       !.body = [NoBody EXCEPT !.error = error]])
           ELSE /\ UNCHANGED performance_metrics
                /\ op' = [op EXCEPT ![t] = "predict_move"]
                /\ Goto(t, "pm_enter")
                /\ SetLoc(t, [l EXCEPT !.pending = TRUE, !.fen = req.fen,
                                       !.level = level.val,
                                       !.nodes = IntV(nodes.val),
                                       !.via = "metrics",
                                       !.was_cached = level.val \in DOMAIN engine_cache])
    /\ UNCHANGED <<env, sweeps, engine_cache, engines, engine_stats, result>>

\* predict_move_with_metrics returned a move: get_move calls
\* predict_move_with_validation_logging with the same arguments (line 378),
\* which searches once more (searches goes on counting for the request).
GmSecondSearch(t) ==
    /\ pc[t] = "done"
    /\ loc[t].handler = "get_move" /\ loc[t].pending
    /\ loc[t].via = "metrics"
    /\ result[t].kind = "ok"
    /\ SetLoc(t, [NoLoc EXCEPT !.handler = "get_move", !.pending = TRUE,
                               !.req = loc[t].req,
                               !.start_time = loc[t].start_time,
                               !.fen = loc[t].fen, !.level = loc[t].level,
                               !.nodes = loc[t].nodes,
                               !.was_cached = loc[t].was_cached,
                               !.searches = loc[t].searches,
                               !.via = "logging",
                               !.engine_type = IF CheckLc0Availability
                                               THEN "LC0"
                                               ELSE "RANDOM_FALLBACK",
                               !.body = [NoBody EXCEPT !.move = result[t].move]])
    /\ Goto(t, "pm_enter")
    /\ result' = [result EXCEPT ![t] = NoResult]
    /\ UNCHANGED <<env, engine_cache, engines, engine_stats, op, budget,
                   performance_metrics>>

\* both searches returned: response_time, update_metrics (lines 381-384),
\* and the call of monitor_memory_usage() while the answer is built (399)
GmMetrics(t) ==
    /\ pc[t] = "done"
    /\ loc[t].handler = "get_move" /\ loc[t].pending
    /\ loc[t].via = "logging" /\ op[t] = "predict_move"
    /\ result[t].kind = "ok"
    /\ LET response_time == now - loc[t].start_time IN
        /\ performance_metrics' =
                UpdateMetrics(performance_metrics, response_time, loc[t].level,
                              loc[t].was_cached, FALSE)
        /\ \E m \in MemoryReadings :
                SetLoc(t, [loc[t] EXCEPT !.response_time = response_time,
                                         !.memory = m])
    /\ op' = [op EXCEPT ![t] = "monitor"]
    /\ Goto(t, "mm_check")
    /\ result' = [result EXCEPT ![t] = NoResult]
    /\ UNCHANGED <<env, engine_cache, engines, engine_stats, budget>>

\* the answer, were it to carry the default level whatever was asked
GmRespondDefaultLevel(t) ==
    /\ pc[t] = "done"
    /\ loc[t].handler = "get_move" /\ loc[t].pending
    /\ op[t] = "monitor"
    /\ performance_metrics' =
            LogNetworkPerformance(performance_metrics, loc[t].response_time,
                                  "/get_move", HttpOk)
    /\ SetLoc(t, [loc[t] EXCEPT !.pending = FALSE, !.status = HttpOk,
                                !.body = [@ EXCEPT !.level = DefaultLevel,
                                                   !.nodes = loc[t].nodes.val,
                                                   !.engine_cached = loc[t].was_cached,
                                                   !.engine_type = loc[t].engine_type]])
    /\ UNCHANGED <<env, engine_cache, engines, engine_stats, pc, op, result,
                   budget>>

\* monitor_memory_usage() returned: the answer is built from move, level
\* and nodes, logged with status 200 and sent (lines 391-407)
GmRespond(t) ==
    /\ pc[t] = "done"
    /\ loc[t].handler = "get_move" /\ loc[t].pending
    /\ op[t] = "monitor"
    /\ performance_metrics' =
            LogNetworkPerformance(performance_metrics, loc[t].response_time,
                                  "/get_move", HttpOk)
    /\ SetLoc(t, [loc[t] EXCEPT !.pending = FALSE, !.status = HttpOk,
                                !.body = [@ EXCEPT !.level = loc[t].level,
                                                   !.nodes = loc[t].nodes.val,
                                                   !.engine_cached = loc[t].was_cached,
                                                   !.engine_type = loc[t].engine_type]])
    /\ UNCHANGED <<env, engine_cache, engines, engine_stats, pc, op, result,
                   budget>>

\* one of the two searches raised: the except clause for what was raised
\* (lines 409-432) updates the metrics, logs the status and answers; the
\* finally clause (433-437) then updates the metrics a second time.
GmFail(t) ==
    /\ pc[t] = "done"
    /\ loc[t].handler = "get_move" /\ loc[t].pending
    /\ op[t] = "predict_move"
    /\ result[t].kind # "ok"
    /\ LET response_time == now - loc[t].start_time
           request_level == loc[t].level
           status == StatusOf(result[t].kind)
           counted == IF request_level # 0
                      THEN UpdateMetrics(performance_metrics, response_time,
                                         request_level, FALSE, TRUE)
                      ELSE performance_metrics
           logged == LogNetworkPerformance(counted, response_time, "/get_move",
                                           status)
       IN /\ performance_metrics' =
                Finally(logged, TRUE, request_level, response_time)
          /\ SetLoc(t, [loc[t] EXCEPT !.pending = FALSE, !.status = status,
                            !.response_time = response_time,
                            !.body = [NoBody EXCEPT !.error = ErrorText(result[t].kind)]])
    /\ UNCHANGED <<env, engine_cache, engines, engine_stats, pc, op, result,
                   budget>>

\* ------------------------------------------------ app.py: health_check
\* health_check up to the reading inside monitor_memory_usage()
CallHealthCheck(t) ==
    /\ pc[t] = "idle"
    /\ calls < MaxCalls
    /\ calls' = calls + 1
    /\ \E m \in MemoryReadings :
        SetLoc(t, [NoLoc EXCEPT !.handler = "health_check", !.pending = TRUE,
                                !.start_time = now, !.memory = m])
    /\ op' = [op EXCEPT ![t] = "monitor"]
    /\ Goto(t, "mm_check")
    /\ UNCHANGED <<env, sweeps, engine_cache, engines, engine_stats, result,
                   performance_metrics>>

\* monitor_memory_usage() returned: the answer is built (lines 189-212),
\* logged with status 200 and sent
HcRespond(t) ==
    /\ pc[t] = "done"
    /\ loc[t].handler = "health_check" /\ loc[t].pending
    /\ performance_metrics' =
            LogNetworkPerformance(performance_metrics, now - loc[t].start_time,
                                  "/", HttpOk)
    /\ SetLoc(t, [loc[t] EXCEPT !.pending = FALSE, !.status = HttpOk,
                    !.body = [NoBody EXCEPT !.status = "ok",
                                !.message = "Maia Chess Backend is running",
                                !.version = "1.1.0"]])
    /\ UNCHANGED <<env, engine_cache, engines, engine_stats, pc, op, result,
                   budget>>

\* ----------------------------------------------- monitor_memory_usage
\* memory_usage = get_memory_usage()
CallMonitor(t) ==
    /\ pc[t] = "idle"
    /\ \E m \in MemoryReadings :
        /\ op' = [op EXCEPT ![t] = "monitor"]
        /\ SetLoc(t, [NoLoc EXCEPT !.memory = m])
    /\ Goto(t, "mm_check")
    /\ UNCHANGED <<env, budget, engine_cache, engines, engine_stats, result>>

\* if memory_usage > 400: if len(_engine_cache) > 2:
\* cleanup_unused_engines(), with its default max_age_seconds
MmCheck(t) ==
    /\ pc[t] = "mm_check"
    /\ IF /\ loc[t].memory > MemoryWatermark
          /\ Cardinality(DOMAIN engine_cache) > MaxCachedEngines
       THEN /\ Goto(t, "cu_scan")
            /\ SetLoc(t, [loc[t] EXCEPT !.max_age = DefaultMaxAge])
            /\ UNCHANGED result
       ELSE Finish(t, OkNone) /\ UNCHANGED loc
    /\ UNCHANGED <<env, engine_cache, engines, engine_stats, op, budget>>

\* ---------------------------------------------------- get_engine_stats
RECURSIVE SumValues(_)
\* sum(d.values())
SumValues(d) ==
    IF DOMAIN d = {} THEN 0
    ELSE LET k == CHOOSE x \in DOMAIN d : TRUE
         IN d[k] + SumValues(Del(d, k))

\* get_engine_stats()['total_moves_computed']
TotalMovesComputed(stats) == SumValues(stats.move_counts)

\* --------------------------------------------- cleanup_unused_engines
CallCleanup(t) ==
    /\ pc[t] = "idle"
    /\ sweeps < MaxSweeps
    /\ sweeps' = sweeps + 1
    /\ \E age \in MaxAges :
        /\ op' = [op EXCEPT ![t] = "cleanup"]
        /\ SetLoc(t, [NoLoc EXCEPT !.max_age = age])
    /\ Goto(t, "cu_scan")
    /\ UNCHANGED <<env, calls, engine_cache, engines, engine_stats, result>>

\* the scan, were the age compared with >=
ExpiredOrEqual(current_time, max_age) ==
    {l \in DOMAIN engine_stats.last_used :
        current_time - engine_stats.last_used[l] >= max_age}

\* the levels the scan of last_used selects
Expired(current_time, max_age) ==
    {l \in DOMAIN engine_stats.last_used :
        current_time - engine_stats.last_used[l] > max_age}

\* current_time = time.time() and the scan loop
CuScan(t) ==
    /\ pc[t] = "cu_scan"
    /\ SetLoc(t, [loc[t] EXCEPT !.current_time = now,
                                !.toRemove = Expired(now, loc[t].max_age)])
    /\ Goto(t, "cu_loop")
    /\ UNCHANGED <<env, engine_cache, engines, engine_stats, op, result, budget>>

\* the removal loop, were a quit() that raises to end the sweep
CuLoopAborting(t) ==
    /\ pc[t] = "cu_loop"
    /\ IF loc[t].toRemove = {}
       THEN Finish(t, OkNone) /\ UNCHANGED <<loc, engines>>
       ELSE \E l \in loc[t].toRemove :
            LET rest == [loc[t] EXCEPT !.toRemove = @ \ {l}] IN
            IF l \notin DOMAIN engine_cache
            THEN SetLoc(t, rest) /\ UNCHANGED <<pc, result, engines>>
            ELSE \E ok \in QuitOutcomes(engines[engine_cache[l]]) :
                 /\ Quit(engine_cache[l], ok)
                 /\ IF ok
                    THEN /\ Goto(t, "cu_del")
                         /\ SetLoc(t, [rest EXCEPT !.level = l,
                                                   !.engine = engine_cache[l]])
                         /\ UNCHANGED result
                    ELSE Finish(t, Err("ReleaseError")) /\ SetLoc(t, rest)
    /\ UNCHANGED <<env, engine_cache, engine_stats, op, budget>>

\* one round of the removal loop up to quit(): a level that is not cached is
\* skipped, a quit() that raises is logged and the entry stays
CuLoop(t) ==
    /\ pc[t] = "cu_loop"
    /\ IF loc[t].toRemove = {}
       THEN Finish(t, OkNone) /\ UNCHANGED <<loc, engines>>
       ELSE \E l \in loc[t].toRemove :
            LET rest == [loc[t] EXCEPT !.toRemove = @ \ {l}] IN
            IF l \notin DOMAIN engine_cache
            THEN SetLoc(t, rest) /\ UNCHANGED <<pc, result, engines>>
            ELSE \E ok \in QuitOutcomes(engines[engine_cache[l]]) :
                 /\ Quit(engine_cache[l], ok)
                 /\ UNCHANGED result
                 /\ IF ok
                    THEN /\ Goto(t, "cu_del")
                         /\ SetLoc(t, [rest EXCEPT !.level = l,
                                                   !.engine = engine_cache[l]])
                    ELSE SetLoc(t, rest) /\ UNCHANGED pc
    /\ UNCHANGED <<env, engine_cache, engine_stats, op, budget>>

\* del _engine_cache[level]  (a KeyError is caught like a failed quit)
CuDel(t) ==
    /\ pc[t] = "cu_del"
    /\ engine_cache' = Del(engine_cache, loc[t].level)
    /\ Goto(t, "cu_loop")
    /\ UNCHANGED <<env, engines, engine_stats, op, loc, result, budget>>

\* --------------------------------------------------- get_engine_stats
\* for level in _engine_cache.keys(): the iterator remembers the size
CallGetEngineStats(t) ==
    /\ pc[t] = "idle"
    /\ op' = [op EXCEPT ![t] = "get_engine_stats"]
    /\ SetLoc(t, [NoLoc EXCEPT !.size = Cardinality(DOMAIN engine_cache)])
    /\ Goto(t, "gs_iter")
    /\ UNCHANGED <<env, budget, engine_cache, engines, engine_stats, result>>

\* one round of the loop: RuntimeError when the dictionary changed size,
\* else stats[level] is filled from _engine_stats with .get and defaults
GsIter(t) ==
    /\ pc[t] = "gs_iter"
    /\ LET left == (DOMAIN engine_cache) \ (DOMAIN loc[t].details) IN
        IF Cardinality(DOMAIN engine_cache) # loc[t].size
        THEN Finish(t, Err("RuntimeError")) /\ UNCHANGED loc
        ELSE IF left = {}
        THEN Goto(t, "gs_ret") /\ UNCHANGED <<loc, result>>
        ELSE \E l \in left :
                /\ SetLoc(t, [loc[t] EXCEPT !.details =
                        Put(@, l, Get(engine_stats.move_counts, l, 0))])
                /\ UNCHANGED <<pc, result>>
    /\ UNCHANGED <<env, engine_cache, engines, engine_stats, op, budget>>

\* the returned dict, were cached_engines to count the levels that have
\* statistics
GsReturnCountingStats(t) ==
    /\ pc[t] = "gs_ret"
    /\ SetLoc(t, [loc[t] EXCEPT !.summary =
            [cached_engines |-> Cardinality(DOMAIN engine_stats.last_used),
             engine_details |-> loc[t].details,
             total_moves_computed |-> TotalMovesComputed(engine_stats)]])
    /\ Finish(t, OkNone)
    /\ UNCHANGED <<env, engine_cache, engines, engine_stats, op, budget>>

\* the returned dict (lines 356-363): cached_engines = len(_engine_cache),
\* engine_details = stats
GsReturn(t) ==
    /\ pc[t] = "gs_ret"
    /\ SetLoc(t, [loc[t] EXCEPT !.summary =
            [cached_engines |-> Cardinality(DOMAIN engine_cache),
             engine_details |-> loc[t].details,
             total_moves_computed |-> TotalMovesComputed(engine_stats)]])
    /\ Finish(t, OkNone)
    /\ UNCHANGED <<env, engine_cache, engines, engine_stats, op, budget>>

\* -------------------------------------------------- _shutdown_engines
\* for eng in _engine_cache.values(): the iterator remembers the size
CallShutdown(t) ==
    /\ pc[t] = "idle"
    /\ sweeps < MaxSweeps
    /\ sweeps' = sweeps + 1
    /\ op' = [op EXCEPT ![t] = "shutdown"]
    /\ SetLoc(t, [NoLoc EXCEPT !.size = Cardinality(DOMAIN engine_cache)])
    /\ Goto(t, "sd_iter")
    /\ UNCHANGED <<env, calls, engine_cache, engines, engine_stats, result>>

\* the loop, were a quit() that raises to end the sweep
SdIterAborting(t) ==
    /\ pc[t] = "sd_iter"
    /\ LET left == (DOMAIN engine_cache) \ loc[t].visited IN
        IF Cardinality(DOMAIN engine_cache) # loc[t].size
        THEN Finish(t, Err("RuntimeError")) /\ UNCHANGED <<loc, engines>>
        ELSE IF left = {}
        THEN Goto(t, "sd_clear") /\ UNCHANGED <<loc, engines, result>>
        ELSE \E l \in left :
             \E ok \in QuitOutcomes(engines[engine_cache[l]]) :
                /\ Quit(engine_cache[l], ok)
                /\ SetLoc(t, [loc[t] EXCEPT !.visited = @ \cup {l}])
                /\ IF ok THEN UNCHANGED <<pc, result>>
                         ELSE Finish(t, Err("ReleaseError"))
    /\ UNCHANGED <<env, engine_cache, engine_stats, op, budget>>

\* one round of the loop: RuntimeError when the dictionary changed size,
\* else quit the next engine, whatever quit() does
SdIter(t) ==
    /\ pc[t] = "sd_iter"
    /\ LET left == (DOMAIN engine_cache) \ loc[t].visited IN
        IF Cardinality(DOMAIN engine_cache) # loc[t].size
        THEN Finish(t, Err("RuntimeError")) /\ UNCHANGED <<loc, engines>>
        ELSE IF left = {}
        THEN Goto(t, "sd_clear") /\ UNCHANGED <<loc, engines, result>>
        ELSE \E l \in left :
             \E ok \in QuitOutcomes(engines[engine_cache[l]]) :
                /\ Quit(engine_cache[l], ok)
                /\ SetLoc(t, [loc[t] EXCEPT !.visited = @ \cup {l}])
                /\ UNCHANGED <<pc, result>>
    /\ UNCHANGED <<env, engine_cache, engine_stats, op, budget>>

\* _engine_cache.clear()
SdClear(t) ==
    /\ pc[t] = "sd_clear"
    /\ engine_cache' = EmptyDict
    /\ Finish(t, OkNone)
    /\ UNCHANGED <<env, engines, engine_stats, op, loc, budget>>

\* ------------------------------------------------------ specifications
\* the steps inside predict_move and _get_engine
CallBody(t) ==
    \/ GeCheck(t)
    \/ GeTouch(t)
    \/ GeReturnHit(t)
    \/ GeWeights(t)
    \/ GeLaunch(t)
    \/ GeRecord(t)
    \/ GeStore(t)
    \/ PmPlay(t)
    \/ PmStats(t)
    \/ PmCount(t)
    \/ PmTime(t)
    \/ Return(t)

\* the steps of predict_move and _get_engine
CallStep(t, F, N, L) ==
    \/ CallPredictMove(t, F, N, L)
    \/ CallGetEngine(t, L)
    \/ CallBody(t)

\* the steps of cleanup_unused_engines and _shutdown_engines
SweepStep(t) ==
    \/ CallCleanup(t)
    \/ CallShutdown(t)
    \/ CuScan(t)
    \/ CuLoop(t)
    \/ CuDel(t)
    \/ SdIter(t)
    \/ SdClear(t)

\* the steps of get_engine_stats
StatsStep(t) ==
    \/ CallGetEngineStats(t)
    \/ GsIter(t)
    \/ GsReturn(t)

\* Threads interleave statement by statement.
Next ==
    \/ \E t \in Threads :
        /\ CallStep(t, NarrowFens, NarrowNodes, NarrowLevels) \/ SweepStep(t)
        /\ UNCHANGED <<pre, web>>
    \/ Tick /\ UNCHANGED <<pre, web>>

Spec == Init /\ [][Next]_vars

\* the steps of _get_engine (lines 196-250)
GetEngineStep(t) ==
    \/ GeCheck(t)
    \/ GeTouch(t)
    \/ GeReturnHit(t)
    \/ GeWeights(t)
    \/ GeLaunch(t)
    \/ GeRecord(t)
    \/ GeStore(t)

\* Concurrent callers of predict_move and _get_engine within one clock
\* reading, without sweeps.
NextSearch ==
    \E t \in Threads :
        /\ CallStep(t, NarrowFens, NarrowNodes, NarrowLevels)
        /\ UNCHANGED <<pre, web>>

SpecSearch == Init /\ [][NextSearch]_vars

\* One operation at a time: a thread steps only while every other thread is
\* idle, and pre keeps the shared state the running operation started from.
Alone(t) == \A u \in Threads \ {t} : pc[u] = "idle"

KeepPre(t) == pre' = IF pc[t] = "idle" THEN Shared ELSE pre

\* Calls and sweeps, one after the other.
NextSeq ==
    \/ \E t \in {1} :
        /\ Alone(t)
        /\ \/ CallStep(t, NarrowFens, NarrowNodes, NarrowLevels)
           \/ SweepStep(t)
           \/ StatsStep(t)
        /\ KeepPre(t)
        /\ UNCHANGED web
    \/ Tick /\ UNCHANGED <<pre, web>>

SpecSeq == Init /\ [][NextSeq]_vars

\* predict_move and _get_engine, one call after the other, over the wide
\* inputs.
NextCalls ==
    \/ \E t \in {1} :
        /\ Alone(t)
        /\ CallStep(t, WideFens, WideNodes, Levels)
        /\ KeepPre(t)
        /\ UNCHANGED web
    \/ Tick /\ UNCHANGED <<pre, web>>

SpecCalls == Init /\ [][NextCalls]_vars
\* A warmed-up service whose threads call predict_move_with_metrics and the
\* sweeps, interleaving statement by statement.
NextWarm ==
    \/ \E t \in Threads :
        /\ \/ CallPredictMoveWithMetrics(t, NarrowFens, NarrowNodes, NarrowLevels)
           \/ PmEnter(t)
           \/ CallBody(t)
           \/ SweepStep(t)
        /\ UNCHANGED <<pre, web>>
    \/ Tick /\ UNCHANGED <<pre, web>>

SpecWarm == InitWarm /\ [][NextWarm]_vars

\* A warmed-up service that takes one operation at a time, logged
\* predictions and memory monitoring among them, while the lc0 binary may
\* come and go.
NextOps ==
    \/ \E t \in {1} :
        /\ Alone(t)
        /\ \/ CallPredictMoveWithValidationLogging(t, NarrowFens, NarrowNodes,
                                                   NarrowLevels)
           \/ CallValidateEnginePerformance(t, NarrowLevels)
           \/ VpRecord(t)
           \/ PmEnter(t)
           \/ CallBody(t)
           \/ CallMonitor(t)
           \/ MmCheck(t)
           \/ SweepStep(t)
        /\ KeepPre(t)
        /\ UNCHANGED web
    \/ Tick /\ UNCHANGED <<pre, web>>
    \/ Lc0Changes /\ UNCHANGED <<pre, web>>

SpecOps == InitWarm /\ [][NextOps]_vars

\* the steps of the two HTTP handlers outside the engine module
HandlerStep(t, R) ==
    \/ CallGetMove(t, R)
    \/ GmSecondSearch(t)
    \/ GmMetrics(t)
    \/ GmRespond(t)
    \/ GmFail(t)
    \/ CallHealthCheck(t)
    \/ HcRespond(t)

\* the steps of the engine module a handler runs through
EngineStep(t) ==
    \/ PmEnter(t)
    \/ CallBody(t)
    \/ MmCheck(t)
    \/ CuScan(t)
    \/ CuLoop(t)
    \/ CuDel(t)

\* A cold service that answers one HTTP request after the other, within
\* one reading of the clock.
NextApi ==
    \E t \in {1} :
        /\ Alone(t)
        /\ \/ HandlerStep(t, Requests) /\ UNCHANGED inserted
           \/ EngineStep(t) /\ UNCHANGED web
        /\ KeepPre(t)

SpecApi == Init /\ [][NextApi]_vars

\* the steps of update_metrics and get_performance_summary
MetricsStep(t) ==
    \/ CallUpdateMetrics(t, {1}, NarrowLevels)
    \/ UmAcquire(t)
    \/ UmTotals(t)
    \/ UmCache(t)
    \/ UmError(t)
    \/ GetPerformanceSummary(t)

\* Request threads that update and read the API metrics concurrently.
NextMetrics ==
    \E t \in Threads :
        /\ \/ MetricsStep(t)
           \/ Return(t) /\ UNCHANGED performance_metrics
        /\ UNCHANGED <<pre, inserted>>

SpecMetrics == Init /\ [][NextMetrics]_vars

\* the steps of warm_engines
WarmStep(t) ==
    \/ CallWarmEngines(t, WarmLists)
    \/ WeNext(t)
    \/ GetEngineStep(t)
    \/ Return(t)

\* A cold service whose engines are warmed, one warm-up after the other.
NextStartup ==
    \/ \E t \in {1} :
        /\ Alone(t)
        /\ WarmStep(t)
        /\ KeepPre(t)
        /\ UNCHANGED web
    \/ Tick /\ UNCHANGED <<pre, web>>

SpecStartup == Init /\ [][NextStartup]_vars

\* Samples arriving at the rolling logs.
NextLogs ==
    \/ StoreValidationMetrics
    \/ RecordResponseTime
    \/ RecordNetworkMetric

SpecLogs == Init /\ [][NextLogs]_vars

\* ---------------------------------------------------------- properties
EngineIds == 1..Len(engines)
InPredict(t) == op[t] = "predict_move"
Acquiring(t) == op[t] \in {"predict_move", "get_engine"}
PositionOk(t) == FenParses(loc[t].fen) /\ ~IsGameOver(loc[t].fen)
HasFile(l) == \E d \in Dirs : <<l, d>> \in disk

\* The threads that saw a miss for level l and have not stored an engine yet.
MissWindow(l) ==
    {t \in Threads : /\ pc[t] \in {"ge_weights", "ge_launch", "ge_record", "ge_store"}
                     /\ loc[t].level = l}

\* C1: threads that are inside _get_engine(l) after a miss at the same time
\* construct at most one engine for l between them.
C1_OneConstructionPerLevel ==
    \A l \in Levels :
        Cardinality({loc[t].engine : t \in MissWindow(l)} \ {0}) <= 1

\* An engine a thread has constructed and is about to put into the cache.
BeingRegistered(e) ==
    \E t \in Threads : pc[t] \in {"ge_record", "ge_store"} /\ loc[t].engine = e

\* C2: every engine that was constructed and never quit is the engine the
\* cache holds under its level (an engine on its way into the cache aside),
\* already while no cleanup or shutdown has been called.
C2_CacheOwnsLiveEngines ==
    \A e \in EngineIds :
        (engines[e].status = "running" /\ ~BeingRegistered(e) /\ sweeps = 0)
            => /\ engines[e].level \in DOMAIN engine_cache
               /\ engine_cache[engines[e].level] = e

\* A step of cleanup_unused_engines.
CleanupStep ==
    \E c \in Threads :
        /\ op[c] = "cleanup"
        /\ pc[c] \in {"cu_loop", "cu_del"}
        /\ (pc'[c] # pc[c] \/ loc'[c] # loc[c])

\* C3: no step of cleanup_unused_engines quits an engine, or removes it from
\* the cache, while a predict_move call is inside engine.play on it.
C3_NoEvictionMidSearch ==
    [][\A t \in Threads :
          (pc[t] = "pm_play" /\ CleanupStep)
              => LET e == loc[t].engine
                     l == engines[e].level
                 IN /\ engines'[e].status = engines[e].status
                    /\ (l \in DOMAIN engine_cache /\ engine_cache[l] = e)
                          => (l \in DOMAIN engine_cache' /\ engine_cache'[l] = e)]_vars

NoQuitFailure == \A e \in EngineIds : engines[e].status # "quit_failed"

\* C4: run alone and with no failing quit, cleanup_unused_engines(max_age)
\* quits and removes exactly the cached levels whose age at the scan is above
\* max_age; every other cached level keeps its engine, and none is added.
C4_CleanupRemovesExactlyExpired ==
    \A t \in Threads :
        (pc[t] = "done" /\ op[t] = "cleanup" /\ NoQuitFailure)
            => /\ DOMAIN engine_cache \subseteq DOMAIN pre.cache
               /\ \A l \in DOMAIN pre.cache :
                    IF loc[t].current_time - pre.stats.last_used[l] > loc[t].max_age
                    THEN /\ l \notin DOMAIN engine_cache
                         /\ engines[pre.cache[l]].status = "quit"
                    ELSE /\ l \in DOMAIN engine_cache
                         /\ engine_cache[l] = pre.cache[l]
                         /\ engines[pre.cache[l]].status = "running"

\* A sweep that met two cached levels, removed one and kept the other.
C4_Witness ==
    \E t \in Threads :
        /\ pc[t] = "done" /\ op[t] = "cleanup" /\ NoQuitFailure
        /\ Cardinality(DOMAIN pre.cache) = 2
        /\ Cardinality(DOMAIN engine_cache) = 1

\* C5: predict_move for a level outside the supported set, on a valid
\* position with a valid node budget, constructs no engine and ends with a
\* level error.
C5_UnsupportedLevelRejected ==
    \A t \in Threads :
        (InPredict(t) /\ loc[t].level \notin SupportedLevels
            /\ PositionOk(t) /\ NodesOk(loc[t].nodes))
            => /\ pc[t] \notin {"ge_record", "ge_store"}
               /\ (~loc[t].hit => loc[t].engine = 0)
               /\ (pc[t] = "done" => result[t].kind \in {"InvalidLevel", "ModelNotFound"})

\* C6: on a valid position a predict_move call gets past the node-budget
\* check exactly when nodes is an int in 1..10000; any other value ends the
\* call at once with the node-budget error, the shared state untouched.
C6_NodeBudgetValidation ==
    \A t \in Threads :
        (InPredict(t) /\ PositionOk(t))
            => LET n == loc[t].nodes IN
               IF n.type = "int" /\ 1 <= n.val /\ n.val <= 10000
               THEN result[t].kind # "InvalidNodes"
               ELSE /\ pc[t] = "done"
                    /\ result[t].kind = "InvalidNodes"
                    /\ Shared = pre

\* A call with the largest budget that came back with a move.
C6_Witness ==
    \E t \in Threads :
        /\ InPredict(t) /\ loc[t].nodes = IntV(10000)
        /\ pc[t] = "done" /\ result[t].kind = "ok"

\* The checks a request violates, in the documented order.
ViolatesSyntax(t) == ~FenParses(loc[t].fen)
ViolatesTerminal(t) == FenParses(loc[t].fen) /\ IsGameOver(loc[t].fen)
ViolatesNodes(t) ==
    ~(loc[t].nodes.type = "int" /\ 1 <= loc[t].nodes.val /\ loc[t].nodes.val <= 10000)
ViolatesLevel(t) == loc[t].level \notin SupportedLevels
Violations(t) ==
    {i \in 1..4 : \/ i = 1 /\ ViolatesSyntax(t)
                  \/ i = 2 /\ ViolatesTerminal(t)
                  \/ i = 3 /\ ViolatesNodes(t)
                  \/ i = 4 /\ ViolatesLevel(t)}
ErrorOfCheck(i) ==
    CASE i = 1 -> "InvalidFEN"
      [] i = 2 -> "NoLegalMoves"
      [] i = 3 -> "InvalidNodes"
      [] OTHER -> "InvalidLevel"

\* C7: a predict_move request that violates several checks ends, before any
\* engine is acquired, with the error of the earliest violated check in the
\* order position syntax, terminal position, node budget, level.
C7_EarliestViolationReported ==
    \A t \in Threads :
        (InPredict(t) /\ Cardinality(Violations(t)) >= 2)
            => LET first == CHOOSE i \in Violations(t) : \A j \in Violations(t) : i <= j
               IN /\ pc[t] = "done"
                  /\ result[t].kind = ErrorOfCheck(first)
                  /\ loc[t].engine = 0

\* A finished request that was terminal, over budget and for an unsupported
\* level at once.
C7_Witness ==
    \E t \in Threads :
        /\ InPredict(t) /\ pc[t] = "done"
        /\ Violations(t) = {2, 3, 4}

ValidationErrors == {"InvalidFEN", "NoLegalMoves", "InvalidNodes", "ModelNotFound"}

\* C8: a predict_move call that ends with a validation error (position,
\* terminal position, node budget, no model for the level) leaves
\* _engine_cache and _engine_stats as they were when it started.
C8_FailedValidationChangesNothing ==
    \A t \in Threads :
        (InPredict(t) /\ pc[t] = "done" /\ result[t].kind \in ValidationErrors)
            => /\ engine_cache = pre.cache
               /\ engine_stats = pre.stats

\* A call for a level without weights that failed while an engine was cached.
C8_Witness ==
    \E t \in Threads :
        /\ InPredict(t) /\ pc[t] = "done"
        /\ result[t].kind = "ModelNotFound"
        /\ DOMAIN engine_cache # {}

C10_WeightsResolvedBeforeLaunch ==
    /\ \A e \in EngineIds :
         /\ <<engines[e].level, engines[e].weights>> \in disk
         /\ \A d \in Dirs : d < engines[e].weights => <<engines[e].level, d>> \notin disk
    /\ \A l \in DOMAIN engine_cache : HasFile(l)
    /\ \A t \in Threads :
         (Acquiring(t) /\ ~HasFile(loc[t].level))
            => /\ pc[t] \in {"ge_check", "ge_weights", "done"}
               /\ loc[t].engine = 0
               /\ (pc[t] = "done" /\ result[t].kind \notin {"InvalidFEN", "NoLegalMoves", "InvalidNodes"})
                     => result[t].kind = "ModelNotFound"

\* A direct _get_engine call that ended with the model-not-found error.
C10_Witness ==
    \E t \in Threads :
        /\ op[t] = "get_engine" /\ pc[t] = "done"
        /\ result[t].kind = "ModelNotFound"

\* A finished _get_engine call (direct or inside predict_move) that saw a miss
\* and found the weight file, so that it went on to launch the engine.
Launched(t) ==
    /\ Acquiring(t) /\ pc[t] = "done" /\ ~loc[t].hit
    /\ HasFile(loc[t].level)
    /\ result[t].kind \notin {"InvalidFEN", "NoLegalMoves", "InvalidNodes"}

\* C11: without the lc0 binary the launch never fails: a random engine is
\* made and cached; with the binary, a launch that fails ends the call with
\* the engine-init error and the level stays out of the cache.
C11_LaunchFailureHandling ==
    \A t \in Threads :
        Launched(t) =>
            LET l == loc[t].level
                e == loc[t].engine
            IN IF ~lc0Present
               THEN /\ result[t].kind # "EngineInitError"
                    /\ e # 0
                    /\ engines[e].kind = "random"
                    /\ l \in DOMAIN engine_cache /\ engine_cache[l] = e
               ELSE /\ (e # 0 => engines[e].kind = "lc0")
                    /\ (result[t].kind = "EngineInitError"
                            => /\ e = 0
                               /\ l \notin DOMAIN engine_cache
                               /\ engine_cache = pre.cache)

\* A launch that failed with the binary present while another level was
\* cached.
C11_Witness ==
    \E t \in Threads :
        /\ Launched(t) /\ lc0Present
        /\ result[t].kind = "EngineInitError"
        /\ DOMAIN engine_cache # {}

\* C12: every finished creation attempt of _get_engine, whatever its
\* outcome, has left a start-up time and a memory delta for the level in
\* _engine_stats.
C12_StartupRecordedWhateverOutcome ==
    \A t \in Threads :
        (/\ Acquiring(t) /\ pc[t] = "done" /\ ~loc[t].hit
         /\ result[t].kind \notin {"InvalidFEN", "NoLegalMoves", "InvalidNodes"})
            => /\ loc[t].level \in DOMAIN engine_stats.startup_times
               /\ loc[t].level \in DOMAIN engine_stats.memory_usage

\* C13: the engine-kind tag predict_move_with_validation_logging returns with
\* a move names the kind of the engine that made the move.
C13_TagIsKindOfEngineUsed ==
    \A t \in Threads :
        (/\ InPredict(t) /\ loc[t].via = "logging"
         /\ pc[t] = "done" /\ result[t].kind = "ok")
            => (loc[t].engine_type = "LC0"
                    <=> engines[result[t].engine].kind = "lc0")

\* C14: a finished _shutdown_engines, run alone, has called quit() on every
\* engine that was cached, whether or not a quit() raised, has raised
\* nothing itself, and has left _engine_cache empty.
C14_ShutdownQuitsAllAndClears ==
    \A t \in Threads :
        (op[t] = "shutdown" /\ pc[t] = "done")
            => /\ result[t] = OkNone
               /\ engine_cache = EmptyDict
               /\ \A l \in DOMAIN pre.cache :
                    engines[pre.cache[l]].status \in {"quit", "quit_failed"}

\* A shutdown over two cached engines during which a quit() raised.
C14_Witness ==
    \E t \in Threads :
        /\ op[t] = "shutdown" /\ pc[t] = "done"
        /\ Cardinality(DOMAIN pre.cache) = 2
        /\ \E l \in DOMAIN pre.cache : engines[pre.cache[l]].status = "quit_failed"
        /\ \E l \in DOMAIN pre.cache : engines[pre.cache[l]].status = "quit"

\* A finished monitor_memory_usage call that went through the sweep.
Swept(t) == loc[t].max_age = DefaultMaxAge

\* C15: monitor_memory_usage runs the idle-eviction sweep whenever more than
\* two engines are cached or the memory reading is above 400 MB.
C15_SweepOnCountOrMemory ==
    \A t \in Threads :
        (op[t] = "monitor" /\ pc[t] = "done")
            => (Swept(t) <=> \/ Cardinality(DOMAIN engine_cache) > MaxCachedEngines
                             \/ loc[t].memory > MemoryWatermark)

\* C16: the flag predict_move_with_metrics returns with a move is TRUE when
\* the call's _get_engine found the engine in the cache and FALSE when the
\* call constructed it.
C16_CacheHitFlagIsExact ==
    \A t \in Threads :
        (/\ InPredict(t) /\ loc[t].via = "metrics"
         /\ pc[t] = "done" /\ result[t].kind = "ok")
            => (loc[t].was_cached <=> loc[t].hit)

\* A call that got past the input checks and whose _get_engine is over.
PastAcquire(t) ==
    /\ Acquiring(t)
    /\ pc[t] \in {"pm_play", "done"}
    /\ result[t].kind \notin {"InvalidFEN", "NoLegalMoves", "InvalidNodes"}

\* C17: a _get_engine call for a level that is cached when the call starts,
\* run alone, returns the cached engine, constructs none (the returned
\* engine is the newest ever made for the level, and stays the cached one)
\* and sets last_used of the level to a time within the call.
C17_HitReturnsCachedEngine ==
    \A t \in Threads :
        LET l == loc[t].level IN
        (PastAcquire(t) /\ l \in DOMAIN pre.cache)
            => /\ loc[t].hit
               /\ loc[t].engine = pre.cache[l]
               /\ l \in DOMAIN engine_cache /\ engine_cache[l] = pre.cache[l]
               /\ \A e \in EngineIds : engines[e].level = l => e <= pre.cache[l]
               /\ engine_stats.last_used[l] >= loc[t].start
               /\ engine_stats.last_used[l] <= now

\* A direct _get_engine call that hit the cache a tick after the engine was
\* made.
C17_Witness ==
    \E t \in Threads :
        /\ op[t] = "get_engine" /\ pc[t] = "done" /\ loc[t].hit
        /\ result[t].engine = pre.cache[loc[t].level]
        /\ pre.stats.last_used[loc[t].level] < loc[t].start

\* The threads holding the move of a finished predict_move call that hit the
\* cache for level l.
CountedHits(l) ==
    {t \in Threads : /\ InPredict(t) /\ pc[t] = "done" /\ result[t].kind = "ok"
                     /\ loc[t].level = l /\ loc[t].hit}

\* C18: while a level stays cached (no sweep has been called), the
\* predict_move calls that have completed for it are all counted in
\* move_counts[level], however they interleaved.
C18_NoLostMoveCount ==
    sweeps = 0 =>
        \A l \in DOMAIN engine_cache :
            engine_stats.move_counts[l] >= Cardinality(CountedHits(l))

\* A finished predict_move call whose search failed.
SearchFailed(t) ==
    /\ InPredict(t) /\ pc[t] = "done"
    /\ result[t].kind \in {"EngineError", "NoMove"}

C20_TotalMovesGrows ==
    \A t \in Threads :
        (InPredict(t) /\ pc[t] = "done" /\ result[t].kind = "ok")
            => TotalMovesComputed(engine_stats) > TotalMovesComputed(pre.stats)

\* C26: predict_move turns a position that parses away with the
\* no-legal-moves error exactly when the position has no legal move.
C26_TerminalIffNoLegalMove ==
    \A t \in Threads :
        (InPredict(t) /\ pc[t] = "done" /\ FenParses(loc[t].fen))
            => (result[t].kind = "NoLegalMoves" <=> LegalMoves(loc[t].fen) = {})

\* The cached levels a sweep found expired when it started.
ExpiredAtStart(t) ==
    {l \in DOMAIN pre.cache :
        loc[t].current_time - pre.stats.last_used[l] > loc[t].max_age}

\* C27: a finished cleanup_unused_engines, run alone, has raised nothing and
\* has called quit() on the engine of every expired level, whether or not
\* a quit() raised on the way.
C27_CleanupSwallowsQuitFailures ==
    \A t \in Threads :
        (op[t] = "cleanup" /\ pc[t] = "done")
            => /\ result[t] = OkNone
               /\ \A l \in ExpiredAtStart(t) :
                    engines[pre.cache[l]].status \in {"quit", "quit_failed"}

\* A sweep over two expired engines: one quit() raised, the other went
\* through.
C27_Witness ==
    \E t \in Threads :
        /\ op[t] = "cleanup" /\ pc[t] = "done"
        /\ \E l \in ExpiredAtStart(t) : engines[pre.cache[l]].status = "quit_failed"
        /\ \E l \in ExpiredAtStart(t) : engines[pre.cache[l]].status = "quit"

\* C28: after cleanup_unused_engines, run alone, no level that was expired
\* when the sweep started is in _engine_cache, a level whose quit() raised
\* included.
C28_NoExpiredLevelStaysCached ==
    \A t \in Threads :
        (op[t] = "cleanup" /\ pc[t] = "done")
            => \A l \in ExpiredAtStart(t) : l \notin DOMAIN engine_cache

\* C29: cleanup_unused_engines deletes a cache entry only while the level's
\* last_used is still as old as the scan found it: an entry refreshed since
\* the scan is spared.
C29_RefreshedEngineIsSpared ==
    \A t \in Threads :
        (op[t] = "cleanup" /\ pc[t] = "cu_del")
            => loc[t].current_time - engine_stats.last_used[loc[t].level]
                    > loc[t].max_age

\* C30: while a thread is inside engine.play for one level, every step of
\* a _get_engine call for another level can be taken: the acquisition waits
\* for nothing the search holds.
C30_SearchDoesNotBlockAcquire ==
    \A t \in Threads : \A u \in Threads \ {t} :
        (/\ pc[t] = "pm_play"
         /\ pc[u] \in {"ge_check", "ge_touch", "ge_ret", "ge_weights",
                        "ge_launch", "ge_record", "ge_store"}
         /\ loc[u].level # loc[t].level)
            => ENABLED GetEngineStep(u)

\* A search on level 1100 is running while another thread is about to
\* launch the engine of level 1500.
C30_Witness ==
    \E t \in Threads : \E u \in Threads \ {t} :
        /\ pc[t] = "pm_play" /\ loc[t].level = 1100
        /\ pc[u] = "ge_launch" /\ loc[u].level = 1500

\* A log that was handed samples 1..n holds the newest Min(n, cap) of them,
\* oldest first.
KeepsNewest(log, n, cap, Number(_)) ==
    /\ Len(log) = IF n < cap THEN n ELSE cap
    /\ \A i \in 1..Len(log) : Number(log[i]) = n - Len(log) + i

\* C21: whatever was inserted, validation_metrics holds at most 100
\* entries, recent_response_times at most 100 and network_performance at
\* most 1000, and each holds the most recently inserted samples in the
\* order of their insertion.
C21_RollingLogsKeepNewest ==
    /\ Len(engine_stats.validation_metrics) <= ValidationLogCap
    /\ Len(performance_metrics.recent_response_times) <= ResponseTimesCap
    /\ Len(performance_metrics.network_performance) <= NetworkLogCap
    /\ KeepsNewest(engine_stats.validation_metrics, inserted.validation,
                   ValidationLogCap, LAMBDA m : m.move_calculation_time)
    /\ KeepsNewest(performance_metrics.recent_response_times, inserted.response,
                   ResponseTimesCap, LAMBDA x : x)
    /\ KeepsNewest(performance_metrics.network_performance, inserted.network,
                   NetworkLogCap, LAMBDA m : m.response_time)

\* The network log was handed more samples than it keeps.
C21_Witness ==
    /\ inserted.network > NetworkLogCap + 1
    /\ Len(performance_metrics.network_performance) = NetworkLogCap

\* C22: every validate_engine_performance run, alone, leaves the validation
\* log one sample longer than it found it, whether its prediction
\* returned a move or raised.
C22_EveryValidationRunIsLogged ==
    \A t \in Threads :
        (loc[t].handler = "validate" /\ pc[t] = "done" /\ ~loc[t].pending)
            => Len(engine_stats.validation_metrics)
                    = Len(pre.stats.validation_metrics) + 1

\* What a request means for a field that should hold an integer: the
\* integer it gives, or the default when the key is left out.
Asked(v, default) == IF v.type = "none" THEN default ELSE v.val

\* C23: a get_move answer with status 200 to a request whose level and
\* nodes are integers or left out carries that level and that node budget,
\* 1500 and 1 standing in for what was left out, and a move string of at
\* least four characters.
C23_SuccessEchoesLevelAndNodes ==
    \A t \in Threads :
        (/\ loc[t].handler = "get_move" /\ pc[t] = "done" /\ ~loc[t].pending
         /\ loc[t].status = HttpOk
         /\ loc[t].req.level.type \in {"int", "none"}
         /\ loc[t].req.nodes.type \in {"int", "none"})
            => /\ loc[t].body.level = Asked(loc[t].req.level, 1500)
               /\ loc[t].body.nodes = Asked(loc[t].req.nodes, 1)
               /\ Len(loc[t].body.move) >= 4

\* An answered request that named level 1100 and left nodes out.
C23_Witness ==
    \E t \in Threads :
        /\ loc[t].handler = "get_move" /\ pc[t] = "done" /\ ~loc[t].pending
        /\ loc[t].status = HttpOk
        /\ loc[t].req.level = IntV(1100)
        /\ loc[t].req.nodes = NoNodes

\* The status the claim gives a request: 400 for a body that is not JSON,
\* lacks the position or names a level that is not an integer, and
\* otherwise what the outcome of the prediction calls for.
ClaimedStatus(t) ==
    LET req == loc[t].req IN
    IF ~req.is_json \/ req.fen = "" \/ req.level.type \in {"float", "str"}
    THEN {HttpBadRequest}
    ELSE IF loc[t].status = HttpOk THEN {HttpOk}
    ELSE IF result[t].kind = "ModelNotFound" THEN {HttpNotFound}
    ELSE IF result[t].kind \in {"InvalidFEN", "NoLegalMoves", "InvalidNodes"}
         THEN {HttpBadRequest}
    ELSE IF req.nodes.type \notin {"int", "none"} THEN {HttpBadRequest}
    ELSE {HttpServerError}

\* C24: get_move answers 404 with 'Model not found' when the level has no
\* model, 400 for an invalid or terminal position, a node budget outside
\* [1, 10000], a missing position, a body that is not JSON or a level that
\* is not an integer, and 500 for any other failure; 200 only when nothing
\* failed.
C24_FailureStatuses ==
    \A t \in Threads :
        (loc[t].handler = "get_move" /\ pc[t] = "done" /\ ~loc[t].pending)
            => /\ loc[t].status \in ClaimedStatus(t)
               /\ (loc[t].status = HttpNotFound
                        => loc[t].body.error = "Model not found")
               /\ (loc[t].status = HttpOk => result[t].kind = "ok")

\* C25: the health check answers with status 'ok', the message 'Maia Chess
\* Backend is running' and version '1.0.0'.
C25_HealthCheckBody ==
    \A t \in Threads :
        (loc[t].handler = "health_check" /\ pc[t] = "done" /\ ~loc[t].pending)
            => /\ loc[t].body.status = "ok"
               /\ loc[t].body.message = "Maia Chess Backend is running"
               /\ loc[t].body.version = "1.0.0"

\* C31: a get_engine_stats call that ran alone has left _engine_cache and
\* _engine_stats as it found them; its engine_details has an entry for
\* exactly the levels that are cached, and cached_engines is the number of
\* those entries.
C31_StatsAreAReadOnlySnapshot ==
    \A t \in Threads :
        (op[t] = "get_engine_stats" /\ pc[t] = "done")
            => /\ result[t] = OkNone
               /\ engine_cache = pre.cache
               /\ engine_stats = pre.stats
               /\ DOMAIN loc[t].summary.engine_details = DOMAIN engine_cache
               /\ loc[t].summary.cached_engines
                    = Cardinality(DOMAIN loc[t].summary.engine_details)

\* A snapshot taken while one level is cached and another, evicted before,
\* still has its statistics.
C31_Witness ==
    \E t \in Threads :
        /\ op[t] = "get_engine_stats" /\ pc[t] = "done"
        /\ loc[t].summary.cached_engines = 1
        /\ Cardinality(DOMAIN engine_stats.last_used) = 2

\* C32: in every reachable state, every level in _engine_cache has an
\* entry in last_used, startup_times, move_counts and total_compute_time,
\* so the scan of cleanup_unused_engines, which reads last_used, sees it.
C32_CachedLevelsHaveStatistics ==
    \A l \in DOMAIN engine_cache :
        /\ l \in DOMAIN engine_stats.last_used
        /\ l \in DOMAIN engine_stats.startup_times
        /\ l \in DOMAIN engine_stats.move_counts
        /\ l \in DOMAIN engine_stats.total_compute_time

\* An engine that was created again after an eviction, stored while a
\* sweep's bookkeeping of the first one is still there.
C32_Witness ==
    /\ \E l \in DOMAIN engine_cache : engine_cache[l] > 1
    /\ \E e \in DOMAIN engines : engines[e].status \in {"quit", "quit_failed"}

\* A get_move request that was answered.
Answered(t) == loc[t].handler = "get_move" /\ pc[t] = "done" /\ ~loc[t].pending

\* C33: a get_move request answered with 200 has run exactly one engine
\* search and has raised move_counts of its level by exactly one.
C33_OneSearchPerRequest ==
    \A t \in Threads :
        (Answered(t) /\ loc[t].status = HttpOk)
            => /\ loc[t].searches = 1
               /\ engine_stats.move_counts[loc[t].level]
                    = Get(pre.stats.move_counts, loc[t].level, 0) + 1

\* The request got as far as a parsed level and then failed.
FailedAfterLevel(t) ==
    /\ Answered(t)
    /\ loc[t].status # HttpOk
    /\ loc[t].req.is_json /\ loc[t].req.fen # ""
    /\ PyInt(DataGet(loc[t].req.level, DefaultLevel)).ok

\* C34: a get_move request that fails after its level was parsed raises
\* total_requests by exactly one and error_count by exactly one.
C34_FailureCountedOnce ==
    \A t \in Threads :
        FailedAfterLevel(t)
            => /\ performance_metrics.total_requests
                    = pre.metrics.total_requests + 1
               /\ performance_metrics.error_count
                    = pre.metrics.error_count + 1

\* The request passes every check that comes before the one of nodes.
ReachesNodesCheck(t) ==
    /\ loc[t].req.is_json /\ loc[t].req.fen # ""
    /\ PyInt(DataGet(loc[t].req.level, DefaultLevel)).ok

\* C36: a get_move request whose nodes value is not an integer is answered
\* 400 'Nodes must be an integer' and no search is run for it.
C36_NonIntegerNodesRejected ==
    \A t \in Threads :
        (/\ loc[t].handler = "get_move"
         /\ ReachesNodesCheck(t)
         /\ loc[t].req.nodes.type \in {"float", "str"})
            => /\ loc[t].searches = 0
               /\ pc[t] \notin {"pm_play"}
               /\ (Answered(t) =>
                    /\ loc[t].status = HttpBadRequest
                    /\ loc[t].body.error = "Nodes must be an integer")

\* total_requests is the sum of all hit and miss counters, and errors do
\* not outnumber requests.
Consistent(pm) ==
    /\ pm.total_requests
            = SumValues(pm.engine_cache_hits) + SumValues(pm.engine_cache_misses)
    /\ pm.error_count <= pm.total_requests

\* C35: however concurrent update_metrics calls interleave, whenever
\* metrics_lock is free, and in every summary read under it, total_requests
\* equals the sum over levels of engine_cache_hits plus
\* engine_cache_misses, and error_count <= total_requests.
C35_MetricsStayConsistent ==
    /\ ~MetricsLockHeld => Consistent(performance_metrics)
    /\ \A t \in Threads :
            (op[t] = "get_performance_summary" /\ pc[t] = "done")
                => Consistent(loc[t].snapshot)

\* One call is in the middle of its update, total_requests already ahead
\* of the hit and miss counters, while another call waits for the lock.
C35_Witness ==
    /\ ~Consistent(performance_metrics)
    /\ \E t \in Threads : \E u \in Threads \ {t} :
            pc[t] = "um_lock" /\ pc[u] = "um_cache"

\* warm_engines has returned or raised
Warmed(t) == loc[t].handler = "warm_engines" /\ pc[t] = "done" /\ ~loc[t].pending

SeqRange(s) == {s[i] : i \in 1..Len(s)}

\* C37: warm_engines(levels), run by itself, never raises: it returns None
\* after trying every listed level, a level fails only for want of its
\* weights or because the lc0 launch failed, and every level whose
\* _get_engine call came back is in the cache when it returns.
C37_WarmEnginesNeverRaises ==
    \A t \in Threads : Warmed(t) =>
        /\ result[t] = OkNone
        /\ loc[t].created \cup loc[t].failed = SeqRange(loc[t].levels)
        /\ loc[t].created \subseteq DOMAIN engine_cache
        /\ \A l \in loc[t].failed : ~HasFile(l) \/ lc0Present

\* A warm-up is over whose first level failed and whose later level was
\* created and cached.
C37_Witness ==
    \E t \in Threads :
        /\ Warmed(t)
        /\ loc[t].levels # << >>
        /\ Head(loc[t].levels) \in loc[t].failed
        /\ loc[t].created # {}
        /\ loc[t].created \subseteq DOMAIN engine_cache

====
